---- MODULE Spec2Model ----
(***************************************************************************)
(* Model of hexcrc (src/hexcrc.c): check_file, a finite state automaton    *)
(* that reads a stream one character at a time, decodes pairs of uppercase *)
(* hex digits after each ':' and verifies that the bytes of every record   *)
(* sum to zero modulo 256.                                                 *)
(*                                                                         *)
(* Characters are their ASCII codes.  One action models one iteration of   *)
(* the while loop for one case of the switch, the trailing position update *)
(* included; EndOfStream models fgetc returning EOF and the checks after   *)
(* the loop.  The stream is chosen one character at a time.                *)
(***************************************************************************)
EXTENDS Integers, Sequences, FiniteSets

VARIABLES line, col, input, byte, recordSum, cnt, state,
          pc, verdict, errLine, errCol, errInput,
          consumed, prevState, prevSum, junk

vars == <<line, col, input, byte, recordSum, cnt, state,
          pc, verdict, errLine, errCol, errInput,
          consumed, prevState, prevSum, junk>>

(* ---------------------------- bounds ----------------------------------- *)

\* longest stream explored
MaxLen == 8

\* greatest number of bytes outside the records (bytes other than ':' read in
\* state COMMENT) of a stream explored
MaxJunk == 3

(* --------------------------- constants --------------------------------- *)

\* enum State
COMMENT == 0
NEW_RECORD == 1
BYTE_START == 2
BYTE_END == 3

\* stdio's end-of-stream value, the initial value of input
EOF == -1

\* ':' and '\n'
COLON == 58
NEWLINE == 10

\* the characters streams are made of:
\*   ':'  '0' '1' 'F'  'a' (lowercase hex)  'G' (letter, not hex)  '\n'
Alphabet == {58, 48, 49, 70, 97, 71, 10}

(* ------------------------- <ctype.h>, C locale ------------------------- *)

isdigit(c) == c \in 48..57
isxdigit(c) == isdigit(c) \/ c \in 65..70 \/ c \in 97..102
islower(c) == c \in 97..122
isupper(c) == c \in 65..90
isalpha(c) == isupper(c) \/ islower(c)
isalnum(c) == isalpha(c) \/ isdigit(c)

(* ----------------------------- helpers --------------------------------- *)

\* faulty variant: the uppercase test is dropped
is_hex_char_AnyCase(c) == isxdigit(c)

\* faulty variant: the hex digit test is dropped
is_hex_char_NotLower(c) == ~(isalpha(c) /\ islower(c))

\* is_hex_char: a hex digit that is not a lowercase letter
is_hex_char(c) ==
    IF ~isxdigit(c) THEN FALSE
    ELSE IF isalpha(c) /\ islower(c) THEN FALSE
    ELSE TRUE

\* the value hex_to_dec never returns: the call ends in abort()
ABORT == -1

\* faulty variant: the letters lose their offset of 10
hex_to_dec_NoTen(c) ==
    IF c >= 48 /\ c <= 57 THEN c - 48
    ELSE IF c >= 65 /\ c <= 70 THEN c - 65
    ELSE ABORT

\* hex_to_dec: value of a hex digit, abort() on anything else
hex_to_dec(c) ==
    IF c >= 48 /\ c <= 57 THEN c - 48
    ELSE IF c >= 65 /\ c <= 70 THEN c - 65 + 10
    ELSE ABORT

\* bitwise or of two naturals
RECURSIVE BitOr(_, _)
BitOr(a, b) ==
    IF a = 0 THEN b
    ELSE IF b = 0 THEN a
    ELSE (IF (a % 2 = 1) \/ (b % 2 = 1) THEN 1 ELSE 0)
         + 2 * BitOr(a \div 2, b \div 2)

\* conversion to uint8_t
ToUint8(v) == v % 256

\* faulty variant: the digit is not shifted
HighNibble_NoShift(c) == ToUint8(hex_to_dec(c))

\* byte = hex_to_dec(input) << 4, stored in a uint8_t
HighNibble(c) == ToUint8(hex_to_dec(c) * 16)

\* byte = byte | hex_to_dec(input), stored in a uint8_t
LowNibble(b, c) == ToUint8(BitOr(b, hex_to_dec(c)))

\* faulty variant: the sum itself is compared with zero
check_crc_WholeSum(recsum) == recsum = 0

\* faulty variant: the mask is 0x0F
check_crc_LowNibble(recsum) == recsum % 16 = 0

\* check_crc: the low significant byte is zero
check_crc(recsum) == ToUint8(recsum) = 0

\* faulty variant: the column is not reset on a newline
NextCol_NoReset(c) == col + 1

\* col++; if (input == '\n') col = 1;
NextCol(c) == IF c = NEWLINE THEN 1 ELSE col + 1

\* faulty variant: the line is not incremented on a newline
NextLine_NoIncrement(c) == line

\* if (input == '\n') line++;
NextLine(c) == IF c = NEWLINE THEN line + 1 ELSE line

\* faulty variant: a ':' that ends a record does not open the next one
StateAfterByteEnd_NoReopen(c, s) == s

\* overwrite the state = COMMENT in case of ':'
StateAfterByteEnd(c, s) == IF c = COLON THEN NEW_RECORD ELSE s

\* faulty variant: the low byte of the sum is handed to log_error
CrcErrorInput_LowByte(sum) == sum % 256

\* (int)recordSum, the input argument of log_error("Wrong CRC.", ...); the
\* sums of the streams explored stay far below 2^31, where the conversion
\* keeps the value
CrcErrorInput(sum) == sum

\* the character fprintf's %c writes for the int in: (unsigned char)in
PrintedChar(in) == in % 256

\* faulty variant: the pending byte is added only where the record goes on
\* or is closed
SumAtByteEnd_NotOnLexical(c) ==
    IF isalnum(c) /\ ~is_hex_char(c) THEN recordSum ELSE recordSum + byte

\* recordSum += byte, the first statement of case BYTE_END
SumAtByteEnd(c) == recordSum + byte

(* ------------------------------ state ---------------------------------- *)

Verdicts == {"None", "Ok", "Abort", "UnknownState", "LexicalError",
             "ChecksumError", "EmptyInputError", "NoRecordError"}

Init ==
    /\ line = 1
    /\ col = 1
    /\ input = EOF
    /\ byte = 0
    /\ recordSum = 0
    /\ cnt = 0
    /\ state = COMMENT
    /\ pc = "scan"
    /\ verdict = "None"
    /\ errLine = 0
    /\ errCol = 0
    /\ errInput = EOF
    /\ consumed = <<>>
    /\ prevState = COMMENT
    /\ prevSum = 0
    /\ junk = 0

\* fgetc returned c: the character is consumed
Read(c) ==
    /\ pc = "scan"
    /\ Len(consumed) < MaxLen
    /\ (state = COMMENT /\ c # COLON) => junk < MaxJunk
    /\ junk' = IF state = COMMENT /\ c # COLON THEN junk + 1 ELSE junk
    /\ input' = c
    /\ consumed' = Append(consumed, c)
    /\ prevState' = state
    /\ prevSum' = recordSum

\* end of an iteration that did not return: update context information
Advance(c) ==
    /\ col' = NextCol(c)
    /\ line' = NextLine(c)
    /\ pc' = "scan"
    /\ verdict' = "None"
    /\ UNCHANGED <<errLine, errCol, errInput>>

\* faulty variant: the position is updated before the error is logged
Fail_AfterUpdate(kind, in) ==
    /\ pc' = "done"
    /\ verdict' = kind
    /\ col' = NextCol(in)
    /\ line' = NextLine(in)
    /\ errLine' = line'
    /\ errCol' = col'
    /\ errInput' = in

\* faulty variant: the error is logged and the scan continues
Fail_NoReturn(kind, in) ==
    /\ pc' = "scan"
    /\ verdict' = kind
    /\ errLine' = line
    /\ errCol' = col
    /\ errInput' = in
    /\ UNCHANGED <<line, col>>

\* log_error(msg, line, col, in); return false;
Fail(kind, in) ==
    /\ pc' = "done"
    /\ verdict' = kind
    /\ errLine' = line
    /\ errCol' = col
    /\ errInput' = in
    /\ UNCHANGED <<line, col>>

\* hex_to_dec called abort()
Abort ==
    /\ pc' = "done"
    /\ verdict' = "Abort"
    /\ UNCHANGED <<line, col, errLine, errCol, errInput>>

(* ----------------------------- actions --------------------------------- *)

\* faulty variant: every byte read in COMMENT is counted as a record
CaseComment_CountsBytes(c) ==
    /\ state = COMMENT
    /\ Read(c)
    /\ cnt' = cnt + 1
    /\ state' = IF c = COLON THEN NEW_RECORD ELSE COMMENT
    /\ UNCHANGED <<byte, recordSum>>
    /\ Advance(c)

\* case COMMENT
CaseComment(c) ==
    /\ state = COMMENT
    /\ Read(c)
    /\ IF c = COLON
       THEN cnt' = cnt + 1 /\ state' = NEW_RECORD
       ELSE UNCHANGED <<cnt, state>>
    /\ UNCHANGED <<byte, recordSum>>
    /\ Advance(c)

\* case NEW_RECORD
CaseNewRecord(c) ==
    /\ state = NEW_RECORD
    /\ Read(c)
    /\ UNCHANGED cnt
    /\ IF is_hex_char(c)
       THEN /\ recordSum' = 0
            /\ IF hex_to_dec(c) = ABORT
               THEN Abort /\ byte' = 0 /\ UNCHANGED state
               ELSE /\ byte' = HighNibble(c)
                    /\ state' = BYTE_START
                    /\ Advance(c)
       ELSE /\ Fail("LexicalError", c)
            /\ UNCHANGED <<byte, recordSum, state>>

\* case BYTE_START
CaseByteStart(c) ==
    /\ state = BYTE_START
    /\ Read(c)
    /\ UNCHANGED <<cnt, recordSum>>
    /\ IF is_hex_char(c)
       THEN IF hex_to_dec(c) = ABORT
            THEN Abort /\ UNCHANGED <<byte, state>>
            ELSE /\ byte' = LowNibble(byte, c)
                 /\ state' = BYTE_END
                 /\ Advance(c)
       ELSE /\ Fail("LexicalError", c)
            /\ UNCHANGED <<byte, state>>

\* case BYTE_END
CaseByteEnd(c) ==
    /\ state = BYTE_END
    /\ Read(c)
    /\ UNCHANGED cnt
    /\ recordSum' = SumAtByteEnd(c)
    /\ IF is_hex_char(c)
       THEN IF hex_to_dec(c) = ABORT
            THEN Abort /\ byte' = 0 /\ UNCHANGED state
            ELSE /\ byte' = HighNibble(c)
                 /\ state' = StateAfterByteEnd(c, BYTE_START)
                 /\ Advance(c)
       ELSE IF isalnum(c)
       THEN /\ Fail("LexicalError", c)
            /\ UNCHANGED <<byte, state>>
       ELSE IF ~check_crc(recordSum')
       THEN /\ Fail("ChecksumError", CrcErrorInput(recordSum'))
            /\ UNCHANGED <<byte, state>>
       ELSE /\ state' = StateAfterByteEnd(c, COMMENT)
            /\ UNCHANGED byte
            /\ Advance(c)

\* faulty variant: the record counter is not tested
EofVerdict_NoCntCheck ==
    IF line = 1 /\ col = 1 THEN "EmptyInputError" ELSE "Ok"

\* faulty variant: the record counter is tested first
EofVerdict_CntFirst ==
    IF cnt = 0 THEN "NoRecordError"
    ELSE IF line = 1 /\ col = 1 THEN "EmptyInputError"
    ELSE "Ok"

\* faulty variant: an open record at the end of the stream is refused
EofVerdict_StateChecked ==
    IF line = 1 /\ col = 1 THEN "EmptyInputError"
    ELSE IF cnt = 0 THEN "NoRecordError"
    ELSE IF state # COMMENT THEN "LexicalError"
    ELSE "Ok"

\* the verdict of the checks after the loop
EofVerdict ==
    IF line = 1 /\ col = 1 THEN "EmptyInputError"
    ELSE IF cnt = 0 THEN "NoRecordError"
    ELSE "Ok"

\* fgetc returned EOF: the loop ends
EndOfStream ==
    /\ pc = "scan"
    /\ input' = EOF
    /\ pc' = "done"
    /\ verdict' = EofVerdict
    /\ UNCHANGED <<line, col, byte, recordSum, cnt, state,
                   errLine, errCol, errInput, consumed, prevState, prevSum,
                   junk>>

Next ==
    \/ \E c \in Alphabet : CaseComment(c)
    \/ \E c \in Alphabet : CaseNewRecord(c)
    \/ \E c \in Alphabet : CaseByteStart(c)
    \/ \E c \in Alphabet : CaseByteEnd(c)
    \/ EndOfStream

Spec == Init /\ [][Next]_vars

TypeOK ==
    /\ line \in 1..(MaxLen + 1)
    /\ col \in 1..(MaxLen + 1)
    /\ input \in Alphabet \cup {EOF}
    /\ byte \in 0..255
    /\ recordSum \in 0..(255 * MaxLen)
    /\ cnt \in 0..MaxLen
    /\ state \in {COMMENT, NEW_RECORD, BYTE_START, BYTE_END}
    /\ pc \in {"scan", "done"}
    /\ verdict \in Verdicts
    /\ Len(consumed) <= MaxLen
    /\ junk \in 0..MaxJunk

(* ------------------- check_file as a function of a stream -------------- *)

\* the loop of check_file from character i of stream s on, with the locals
\* st (state), b (byte), sum (recordSum), n (cnt), l (line), k (col); the
\* result is the kind of verdict
RECURSIVE ScanFrom(_, _, _, _, _, _, _, _)
ScanFrom(s, i, st, b, sum, n, l, k) ==
    IF i > Len(s)
    THEN IF l = 1 /\ k = 1 THEN "EmptyInputError"
         ELSE IF n = 0 THEN "NoRecordError"
         ELSE "Ok"
    ELSE
      LET c == s[i]
          l2 == IF c = NEWLINE THEN l + 1 ELSE l
          k2 == IF c = NEWLINE THEN 1 ELSE k + 1
      IN
      IF st = COMMENT
      THEN IF c = COLON
           THEN ScanFrom(s, i + 1, NEW_RECORD, b, sum, n + 1, l2, k2)
           ELSE ScanFrom(s, i + 1, COMMENT, b, sum, n, l2, k2)
      ELSE IF st = NEW_RECORD
      THEN IF is_hex_char(c)
           THEN IF hex_to_dec(c) = ABORT THEN "Abort"
                ELSE ScanFrom(s, i + 1, BYTE_START, HighNibble(c), 0, n, l2, k2)
           ELSE "LexicalError"
      ELSE IF st = BYTE_START
      THEN IF is_hex_char(c)
           THEN IF hex_to_dec(c) = ABORT THEN "Abort"
                ELSE ScanFrom(s, i + 1, BYTE_END, LowNibble(b, c), sum, n, l2, k2)
           ELSE "LexicalError"
      ELSE IF st = BYTE_END
      THEN IF is_hex_char(c)
           THEN IF hex_to_dec(c) = ABORT THEN "Abort"
                ELSE ScanFrom(s, i + 1, StateAfterByteEnd(c, BYTE_START),
                              HighNibble(c), sum + b, n, l2, k2)
           ELSE IF isalnum(c) THEN "LexicalError"
           ELSE IF ~check_crc(sum + b) THEN "ChecksumError"
           ELSE ScanFrom(s, i + 1, StateAfterByteEnd(c, COMMENT),
                         b, sum + b, n, l2, k2)
      ELSE "UnknownState"

\* the kind of verdict of check_file on stream s
check_file(s) == ScanFrom(s, 1, COMMENT, 0, 0, 0, 1, 1)

(* ----------------- the stream, read back from its history -------------- *)

Front(s) == SubSeq(s, 1, Len(s) - 1)

\* fgetc returned a character in the last step
JustRead == input # EOF

\* the scan ended because the stream did
AtEof == pc = "done" /\ input = EOF

\* an uppercase hex digit and its value, as the file format defines them
UpperHex(c) == c \in (48..57) \cup (65..70)
DigitValue(c) == IF c <= 57 THEN c - 48 ELSE c - 55

\* greatest index of s, not above i, holding character ch; 0 if there is none
RECURSIVE LastIndexUpTo(_, _, _)
LastIndexUpTo(s, ch, i) ==
    IF i = 0 THEN 0
    ELSE IF s[i] = ch THEN i
    ELSE LastIndexUpTo(s, ch, i - 1)

\* greatest index of s holding character ch, 0 if there is none
LastIndexOf(s, ch) == LastIndexUpTo(s, ch, Len(s))

CountOf(s, ch) == Cardinality({i \in 1..Len(s) : s[i] = ch})

\* what follows the last ':' of s
Digits(s) == SubSeq(s, LastIndexOf(s, COLON) + 1, Len(s))

\* sum of 16*high+low over the digit pairs of d from index i on
RECURSIVE PairSumFrom(_, _)
PairSumFrom(d, i) ==
    IF i + 1 > Len(d) THEN 0
    ELSE 16 * DigitValue(d[i]) + DigitValue(d[i + 1]) + PairSumFrom(d, i + 2)

\* sum of 16*high+low over the digit pairs of d
PairSum(d) == PairSumFrom(d, 1)

\* s ends with a record: a ':' followed by one or more uppercase hex pairs
CompleteRecord(s) ==
    LET k == LastIndexOf(s, COLON)
        n == Len(s) - k
    IN  /\ k > 0
        /\ n >= 2
        /\ n % 2 = 0
        /\ \A i \in (k + 1)..Len(s) : UpperHex(s[i])

RecordSumOf(s) == PairSum(Digits(s))
BadRecord(s) == CompleteRecord(s) /\ RecordSumOf(s) % 256 # 0
GoodRecord(s) == CompleteRecord(s) /\ RecordSumOf(s) % 256 = 0

\* the whole of s is one record
WholeRecord(s) == CompleteRecord(s) /\ LastIndexOf(s, COLON) = 1

\* line and column of the character that follows s
LineAfter(s) == 1 + CountOf(s, NEWLINE)
ColAfter(s) == 1 + (Len(s) - LastIndexOf(s, NEWLINE))

(* ------------------------------- claims -------------------------------- *)

Adjacent(s) ==
    LET k == LastIndexOf(s, COLON)
    IN  k > 1 /\ UpperHex(s[k - 1])

\* C4: a ':' consumed in state BYTE_END checks the record it ends and, in
\* the same step, leaves the automaton in NEW_RECORD; a bad first record
\* fails at that ':'; the checksum of the record that follows starts from 0
\* and that record passes or fails at its own terminator on its own digits.
C4_AdjacentRecords ==
    /\ (JustRead /\ input = COLON /\ prevState = BYTE_END) =>
          IF RecordSumOf(Front(consumed)) % 256 = 0
          THEN pc = "scan" /\ verdict = "None" /\ state = NEW_RECORD
          ELSE /\ pc = "done"
               /\ verdict = "ChecksumError"
               /\ errLine = LineAfter(Front(consumed))
               /\ errCol = ColAfter(Front(consumed))
    /\ (JustRead /\ pc = "scan" /\ prevState = NEW_RECORD /\ Adjacent(Front(consumed)))
          => recordSum = 0
    /\ (JustRead /\ prevState = BYTE_END /\ ~isalnum(input) /\ Adjacent(Front(consumed)))
          => ((verdict = "ChecksumError") <=> (RecordSumOf(Front(consumed)) % 256 # 0))

C4_Witness ==
    /\ JustRead
    /\ prevState = BYTE_END
    /\ input = NEWLINE
    /\ Adjacent(Front(consumed))
    /\ RecordSumOf(Front(consumed)) = 1
    /\ verdict = "ChecksumError"

\* C5 as stated: while the scan goes on, the record counter is the number of
\* records started, that is of ':' consumed (a ':' is consumed without a
\* failure only where it opens a record).
C5_CounterCountsRecords ==
    pc = "scan" => cnt = CountOf(consumed, COLON)

\* C6: a lowercase hex letter consumed in state NEW_RECORD, BYTE_START or
\* BYTE_END yields LexicalError, reported at the line and column of that
\* character.
C6_LowercaseLexicalError ==
    (JustRead /\ input \in 97..102
       /\ prevState \in {NEW_RECORD, BYTE_START, BYTE_END}) =>
        /\ pc = "done"
        /\ verdict = "LexicalError"
        /\ errInput = input
        /\ errLine = LineAfter(Front(consumed))
        /\ errCol = ColAfter(Front(consumed))

C6_Witness ==
    /\ JustRead
    /\ input = 97
    /\ prevState = BYTE_END
    /\ verdict = "LexicalError"
    /\ errLine = 2
    /\ errCol = 4

\* C7: a LexicalError or ChecksumError is reported at line 1 + the number of
\* newlines consumed before the offending byte and at column 1 + the number
\* of bytes consumed since the last of them (since the start of the stream
\* if there is none).
C7_ReportedPosition ==
    verdict \in {"LexicalError", "ChecksumError"} =>
        /\ errLine = 1 + CountOf(Front(consumed), NEWLINE)
        /\ errCol = 1 + (Len(Front(consumed)) - LastIndexOf(Front(consumed), NEWLINE))

C7_Witness ==
    /\ verdict = "ChecksumError"
    /\ CountOf(Front(consumed), NEWLINE) = 2
    /\ errLine = 3
    /\ errCol = 4

\* C8: a stream of at least one byte and no ':' keeps the automaton in
\* COMMENT after every byte and ends with NoRecordError.
C8_NoColonNoRecord ==
    (Len(consumed) >= 1 /\ CountOf(consumed, COLON) = 0) =>
        /\ state = COMMENT
        /\ pc = "scan" => verdict = "None"
        /\ pc = "done" => (AtEof /\ verdict = "NoRecordError")

C8_Witness ==
    /\ AtEof
    /\ Len(consumed) = 3
    /\ CountOf(consumed, COLON) = 0
    /\ CountOf(consumed, NEWLINE) = 1
    /\ CountOf(consumed, 48) = 1
    /\ verdict = "NoRecordError"

\* C9: the empty stream yields EmptyInputError, not NoRecordError, although
\* no record was found in it either.
C9_EmptyStream ==
    (pc = "done" /\ consumed = <<>>) => verdict = "EmptyInputError"

C9_Witness ==
    /\ pc = "done"
    /\ consumed = <<>>
    /\ cnt = 0
    /\ verdict = "EmptyInputError"

\* s ends inside a record: a ':' followed by uppercase hex digits only
OpenRecord(s) ==
    LET k == LastIndexOf(s, COLON)
    IN  /\ k > 0
        /\ \A i \in (k + 1)..Len(s) : UpperHex(s[i])

C11_InputIsSumMod256 ==
    verdict = "ChecksumError" =>
        /\ errInput = RecordSumOf(Front(consumed)) % 256
        /\ errInput \in 0..255

\* C11 amended: in a ChecksumError diagnostic the input argument of
\* log_error is the accumulated record checksum itself, greater than 255
\* when the sum is; the character written for it is its low byte, which is
\* the checksum modulo 256 and is not 0.
C11_InputIsWholeSum ==
    verdict = "ChecksumError" =>
        /\ errInput = RecordSumOf(Front(consumed))
        /\ errInput = recordSum
        /\ PrintedChar(errInput) = RecordSumOf(Front(consumed)) % 256
        /\ PrintedChar(errInput) \in 1..255

C11_Witness ==
    /\ verdict = "ChecksumError"
    /\ errInput = 510
    /\ PrintedChar(errInput) = 254

\* C12: the scan of a finite stream ends with exactly one verdict: every step
\* of the scan consumes exactly one more byte or is the one that ends it at
\* the end of the stream, which is possible in every scanning state; the
\* verdict is given when the scan ends and nothing is consumed or changed
\* after it; Ok is given at the end of the stream only; a LexicalError or
\* ChecksumError is given in the step that consumes the offending byte, no
\* failure having occurred before.
C12_OneVerdictPrefixConsumed ==
    /\ [](pc = "scan" => ENABLED EndOfStream)
    /\ [](pc = "done" <=> verdict # "None")
    /\ [](verdict = "Ok" => AtEof)
    /\ [][pc = "done" => FALSE]_vars
    /\ [][pc = "scan" =>
            \/ input' # EOF /\ consumed' = Append(consumed, input')
            \/ input' = EOF /\ pc' = "done" /\ consumed' = consumed]_vars
    /\ [][verdict' \in {"LexicalError", "ChecksumError"} =>
            /\ verdict = "None"
            /\ input' # EOF
            /\ consumed' = Append(consumed, input')]_vars

C12_Witness ==
    /\ pc = "done"
    /\ verdict = "LexicalError"
    /\ Len(consumed) = 3
    /\ AtEof = FALSE

\* C13: in NEW_RECORD and BYTE_START every byte that is not one of '0'..'9',
\* 'A'..'F' yields LexicalError with that byte as the offending input; so a
\* record with no digit or an odd number of digits before the byte that
\* follows it is rejected there.
C13_NonDigitInDigitPosition ==
    /\ (JustRead /\ prevState \in {NEW_RECORD, BYTE_START} /\ ~UpperHex(input)) =>
          (pc = "done" /\ verdict = "LexicalError" /\ errInput = input)
    /\ (JustRead /\ ~UpperHex(input) /\ OpenRecord(Front(consumed))
          /\ Len(Digits(Front(consumed))) % 2 = 1) =>
          (prevState = BYTE_START /\ verdict = "LexicalError" /\ errInput = input)
    /\ (JustRead /\ ~UpperHex(input) /\ OpenRecord(Front(consumed))
          /\ Len(Digits(Front(consumed))) = 0) =>
          (prevState = NEW_RECORD /\ verdict = "LexicalError" /\ errInput = input)

C13_Witness ==
    /\ JustRead
    /\ input = NEWLINE
    /\ prevState = BYTE_START
    /\ Len(Digits(Front(consumed))) = 3
    /\ verdict = "LexicalError"
    /\ errInput = NEWLINE

\* the values fgetc returns for a byte
Bytes == 0..255

\* C14: hex_to_dec is called on bytes that is_hex_char accepts only, and it
\* does not abort on any of them, so no scan ends in abort(); state is always
\* one of the four enumerated states, so the default branch of the switch is
\* never taken.  (The second conjunct does not depend on the state: it is
\* evaluated where nothing has been consumed yet.)
C14_NoAbortNoUnknownState ==
    /\ verdict \notin {"Abort", "UnknownState"}
    /\ state \in {COMMENT, NEW_RECORD, BYTE_START, BYTE_END}
    /\ consumed = <<>> => \A c \in Bytes : is_hex_char(c) => hex_to_dec(c) # ABORT

C14_Witness ==
    /\ JustRead
    /\ prevState = BYTE_START
    /\ input = 70
    /\ state = BYTE_END
    /\ byte = 255
    /\ verdict = "None"

\* C15: a byte other than ':' read in COMMENT leaves state, byte, recordSum
\* and cnt as they are and produces no error; and when the scan of a stream
\* of two bytes or more that starts with such a byte has ended, the kind of
\* its verdict is the one check_file gives to the stream without that byte
\* (so, one byte after the other, without any ':'-free prefix that leaves
\* the stream non-empty).
C15_CommentDiscards ==
    /\ [][(state = COMMENT /\ pc = "scan" /\ input' \notin {COLON, EOF}) =>
            /\ UNCHANGED <<state, byte, recordSum, cnt>>
            /\ pc' = "scan"
            /\ verdict' = "None"]_vars
    /\ [](pc = "done" => check_file(consumed) = verdict)
    /\ []((pc = "done" /\ Len(consumed) >= 2 /\ consumed[1] # COLON) =>
            check_file(Tail(consumed)) = verdict)

C15_Witness ==
    /\ AtEof
    /\ Len(consumed) = 7
    /\ LastIndexOf(consumed, COLON) = 4
    /\ consumed[1] = NEWLINE
    /\ consumed[2] = 71
    /\ consumed[3] = 48
    /\ verdict = "Ok"
    /\ check_file(SubSeq(consumed, 4, 7)) = "Ok"

\* C16: line = 1 and col = 1 hold together iff no byte has been consumed; so
\* EmptyInputError is the verdict of the empty stream only, and a stream
\* made of newlines is not taken for an empty one.
C16_EmptyIffNothingConsumed ==
    /\ (line = 1 /\ col = 1) <=> (consumed = <<>>)
    /\ (verdict = "EmptyInputError") <=> (pc = "done" /\ consumed = <<>>)

C16_Witness ==
    /\ AtEof
    /\ Len(consumed) = 2
    /\ CountOf(consumed, NEWLINE) = 2
    /\ col = 1
    /\ verdict = "NoRecordError"

\* C17: byte is in 0..255; in BYTE_START its low 4 bits are 0 and its high 4
\* bits are the value of the last digit consumed; in BYTE_END it is
\* 16*high+low of the last digit pair consumed.  (A scan that has failed has
\* consumed the offending byte after those digits.)
C17_PendingByte ==
    /\ byte \in 0..255
    /\ (state = BYTE_START /\ verdict \in {"None", "Ok"}) =>
          /\ byte % 16 = 0
          /\ byte \div 16 = DigitValue(consumed[Len(consumed)])
    /\ (state = BYTE_END /\ verdict \in {"None", "Ok"}) =>
          byte = 16 * DigitValue(consumed[Len(consumed) - 1])
                 + DigitValue(consumed[Len(consumed)])
    /\ (state = BYTE_START /\ verdict = "LexicalError") =>
          /\ byte % 16 = 0
          /\ byte \div 16 = DigitValue(consumed[Len(consumed) - 1])
    /\ (state = BYTE_END /\ verdict \in {"LexicalError", "ChecksumError"}) =>
          byte = 16 * DigitValue(consumed[Len(consumed) - 2])
                 + DigitValue(consumed[Len(consumed) - 1])

C17_Witness ==
    /\ state = BYTE_END
    /\ pc = "scan"
    /\ byte = 241
    /\ consumed[Len(consumed) - 1] = 70
    /\ consumed[Len(consumed)] = 49

\* C18 as stated: an alphanumeric byte that is no uppercase hex digit,
\* consumed in BYTE_END, yields LexicalError with recordSum as it was before
\* the byte was consumed.
C18_SumUntouchedOnLexicalError ==
    (JustRead /\ prevState = BYTE_END /\ isalnum(input) /\ ~UpperHex(input)) =>
        (verdict = "LexicalError" /\ recordSum = prevSum)

\* C18 amended: an alphanumeric byte that is no uppercase hex digit, consumed
\* in BYTE_END, yields LexicalError after the pending byte has been added to
\* recordSum: at the failure recordSum is its value before the byte was
\* consumed plus the pending byte.
C18_SumAddedBeforeLexicalError ==
    (JustRead /\ prevState = BYTE_END /\ isalnum(input) /\ ~UpperHex(input)) =>
        /\ verdict = "LexicalError"
        /\ recordSum = prevSum + byte
        /\ recordSum = RecordSumOf(Front(consumed))

C18_Witness ==
    /\ JustRead
    /\ prevState = BYTE_END
    /\ input = 71
    /\ verdict = "LexicalError"
    /\ prevSum = 1
    /\ byte = 255
    /\ recordSum = 256

\* C19 as stated: the position is advanced for the byte that triggers a
\* failure too: after it the stored line and col are one step past the
\* reported ones.
C19_PositionAdvancedOnFailure ==
    verdict \in {"LexicalError", "ChecksumError"} =>
        /\ line = LineAfter(consumed)
        /\ col = ColAfter(consumed)
        /\ <<line, col>> # <<errLine, errCol>>

\* C19 amended: the position is advanced for every consumed byte that does
\* not trigger a failure; the byte that triggers a failure is reported at
\* the stored position and the function returns before the update, so the
\* stored position is the reported one.
C19_PositionNotAdvancedOnFailure ==
    /\ verdict \in {"LexicalError", "ChecksumError"} =>
          /\ line = errLine
          /\ col = errCol
          /\ line = LineAfter(Front(consumed))
          /\ col = ColAfter(Front(consumed))
    /\ verdict \notin {"LexicalError", "ChecksumError"} =>
          /\ line = LineAfter(consumed)
          /\ col = ColAfter(consumed)

C19_Witness ==
    /\ verdict = "LexicalError"
    /\ input = NEWLINE
    /\ errLine = 2
    /\ errCol = 3
    /\ line = 2
    /\ col = 3
====
